---- MODULE Spec2Model ----
(***************************************************************************)
(* A model of package sqln (database.go): a Database handle that keeps a   *)
(* mutex-guarded map from query text to prepared named statements, runs    *)
(* Exec/Get/Select through those statements, and scopes a unit of work in  *)
(* a transaction with Transact.  The sqlx driver (PrepareNamed, BeginTxx,  *)
(* Commit, Rollback, NamedStmt.Close, statement execution) is the          *)
(* environment: each driver call may succeed or fail.                      *)
(***************************************************************************)
EXTENDS Integers, FiniteSets, Sequences, TLC

VARIABLES
    stmts,         \* Database.stmts: query -> prepared statement (NoStmt: absent)
    stmtsMtx,      \* Database.stmtsMtx: the goroutine holding it (NoThread: free)
    handles,       \* every *Database built so far: handle -> [tx, txLevel]
    txs,           \* driver: every *sqlx.Tx begun so far and what was called on it
    rows,          \* driver: committed rows of the table, <<key, writer>>
    pc,            \* per goroutine: where it stands in the code
    call,          \* per goroutine: the Stmt/Exec/Get/Select call in progress
    txf,           \* per goroutine: the Transact frame whose callback is running
    ret,           \* the call that returned last: who called, and what it got
    prepareCalls,  \* driver: PrepareNamed invocations per query
    prepareOk,     \* driver: successful PrepareNamed invocations per query
    closeCalls,    \* driver: NamedStmt.Close invocations per statement
    nextStmt,      \* driver: identity of the next statement PrepareNamed builds
    beginCalls,    \* driver: BeginTxx invocations
    closeDone,     \* Database.Close calls that have returned
    calls,         \* public calls made so far
    prepared,      \* driver: per statement, the handle whose call had it prepared
                   \* and what it was prepared on (NoTx: the base connection)
    named          \* how many goroutines, queries and keys have appeared so far

vars == <<stmts, stmtsMtx, handles, txs, rows, pc, call, txf, ret, prepareCalls,
          prepareOk, closeCalls, nextStmt, beginCalls, closeDone, calls, prepared,
          named>>

\* Bounds of the model.
NumThreads == 2
MaxQuery == 2
MaxKey == 1
MaxTx == 2
MaxCalls == 3

Threads == 1..NumThreads
Queries == 1..MaxQuery
Keys == 1..MaxKey
TxIds == 1..MaxTx
StmtIds == 1..MaxCalls

NoThread == 0
NoStmt == 0
NoTx == 0
Root == 0

\* The params argument: absent (nil), the empty struct{}{}, or a binding of
\* the key k in Keys (written k).
NilParams == -1
EmptyParams == 0

OpNames == {"Exec", "Get", "Select"}

(***************************************************************************)
(* Errors.  errors.New builds a leaf; errors.Wrapf annotates a cause and   *)
(* returns nil for a nil cause.                                            *)
(***************************************************************************)
Nil == [kind |-> "nil", level |-> 0, marker |-> "", cause |-> ""]

New(k) == [kind |-> k, level |-> 0, marker |-> "", cause |-> ""]

WrapfAlways(err, lvl, marker) ==
    [kind |-> "wrap", level |-> lvl, marker |-> marker, cause |-> err.kind]

\* errors.Wrapf(err, "tx level %v...", txLvl): nil for a nil err, else err
\* wrapped with the depth and the step's marker.
Wrapf(err, lvl, marker) ==
    IF err = Nil THEN Nil
    ELSE [kind |-> "wrap", level |-> lvl, marker |-> marker, cause |-> err.kind]

NotPrepared == [via |-> Root, on |-> NoTx]

NoCall == [name |-> "", h |-> Root, q |-> 0, k |-> 0, stmt |-> NoStmt]

NoRet == [t |-> NoThread, name |-> "", h |-> Root, q |-> 0, k |-> 0,
          stmt |-> NoStmt, target |-> NoTx, params |-> 0, err |-> Nil]

NoFrame == [tx |-> NoTx, parent |-> Root, lvl |-> 0, cache0 |-> [q \in Queries |-> NoStmt],
            prep0 |-> [q \in Queries |-> 0]]

NoTxRec == [state |-> "none", pending |-> {}, writes |-> {}, commits |-> 0,
            rollbacks |-> 0, ferr |-> Nil, result |-> Nil,
            returned |-> FALSE]

\* New: the root handle, an empty map, a free mutex.
Init ==
    /\ stmts = [q \in Queries |-> NoStmt]
    /\ stmtsMtx = NoThread
    /\ handles = (Root :> [tx |-> NoTx, txLevel |-> 0])
    /\ txs = [x \in TxIds |-> NoTxRec]
    /\ rows = {}
    /\ pc = [t \in Threads |-> "idle"]
    /\ call = [t \in Threads |-> NoCall]
    /\ txf = [t \in Threads |-> NoFrame]
    /\ ret = NoRet
    /\ prepareCalls = [q \in Queries |-> 0]
    /\ prepareOk = [q \in Queries |-> 0]
    /\ closeCalls = [s \in StmtIds |-> 0]
    /\ nextStmt = 1
    /\ beginCalls = 0
    /\ closeDone = 0
    /\ calls = 0
    /\ prepared = [s \in StmtIds |-> NotPrepared]
    /\ named = [thread |-> 0, query |-> 0, key |-> 0]

\* The handle a goroutine calls on: the root, or inside a callback the handle
\* Transact passed to it.
CurHandle(t) == IF txf[t].tx = NoTx THEN Root ELSE txf[t].tx

\* Where a goroutine is between calls: outside any Transact, or in a callback.
Base(t) == IF txf[t].tx = NoTx THEN "idle" ELSE "callback"

AtBase(t) == pc[t] \in {"idle", "callback"}

Max(a, b) == IF a > b THEN a ELSE b

\* Goroutines, query texts and keys are interchangeable, so they are numbered
\* in the order they first appear: a call by goroutine t with query q and key
\* k (0: none) is drawn only if each is one seen before or the next new one.
InOrder(t, q, k) ==
    /\ t <= named.thread + 1
    /\ q <= named.query + 1
    /\ k <= named.key + 1

Names(t, q, k) ==
    [thread |-> Max(named.thread, t), query |-> Max(named.query, q),
     key |-> Max(named.key, k)]

\* A call returns: its result is recorded and the goroutine is between calls again.
Returns(t, r) ==
    /\ ret' = r
    /\ pc' = [pc EXCEPT ![t] = Base(t)]
    /\ call' = [call EXCEPT ![t] = NoCall]

(***************************************************************************)
(* Stmt (database.go 147-165), entered directly or from Exec/Get/Select.   *)
(***************************************************************************)

LockNoExclusion(t) == TRUE

UnlockMissing(t) == t

\* defer d.stmtsMtx.Unlock(): on every return of Stmt and of Close the mutex is
\* free again; the value is what stmtsMtx holds once goroutine t has returned.
Unlock(t) == NoThread

\* d.stmtsMtx.Lock() goes through only while no goroutine holds the mutex.
Lock(t) == stmtsMtx = NoThread

LookupAlwaysMiss(h, q) == NoStmt

LookupPerTx(h, q) == IF handles[h].tx # NoTx THEN NoStmt ELSE stmts[q]

\* s, ok := d.stmts[query]: every handle reads the one shared map.
Lookup(h, q) == stmts[q]

StmtReturnsIgnoringError(t, c, s, err) ==
    IF c.name = "Stmt"
    THEN Returns(t, [t |-> t, name |-> c.name, h |-> c.h, q |-> c.q, k |-> c.k,
                     stmt |-> s, target |-> NoTx, params |-> EmptyParams,
                     err |-> err])
    ELSE /\ pc' = [pc EXCEPT ![t] = "run"]
         /\ call' = [call EXCEPT ![t] = [c EXCEPT !.stmt = s]]
         /\ ret' = ret

\* Stmt's result reaches its caller: Stmt itself returns it; Exec/Get/Select
\* return the error, or go on to execute the statement.
StmtReturns(t, c, s, err) ==
    IF c.name = "Stmt" \/ err # Nil
    THEN Returns(t, [t |-> t, name |-> c.name, h |-> c.h, q |-> c.q, k |-> c.k,
                     stmt |-> s, target |-> NoTx, params |-> EmptyParams,
                     err |-> err])
    ELSE /\ pc' = [pc EXCEPT ![t] = "run"]
         /\ call' = [call EXCEPT ![t] = [c EXCEPT !.stmt = s]]
         /\ ret' = ret

\* A goroutine calls Stmt, Exec, Get or Select on its handle (k: the params
\* argument; an Exec inserts the key it binds) and gets through Lock: it looks the
\* query up; a hit returns (and the deferred Unlock runs), a miss goes on to
\* prepare with the mutex held.
Call(t, name, q, k) ==
    /\ AtBase(t)
    /\ calls < MaxCalls
    /\ InOrder(t, q, k)
    /\ Lock(t)
    /\ calls' = calls + 1
    /\ named' = Names(t, q, k)
    /\ LET c == [name |-> name, h |-> CurHandle(t), q |-> q, k |-> k,
                 stmt |-> NoStmt]
           s == Lookup(c.h, q)
       IN IF s # NoStmt
          THEN /\ StmtReturns(t, c, s, Nil)
               /\ stmtsMtx' = Unlock(t)
          ELSE /\ pc' = [pc EXCEPT ![t] = "Stmt_prepare"]
               /\ call' = [call EXCEPT ![t] = c]
               /\ stmtsMtx' = t
               /\ ret' = ret
    /\ UNCHANGED <<stmts, handles, txs, rows, txf, prepareCalls, prepareOk, prepared,
                   closeCalls, nextStmt, beginCalls, closeDone>>

PrepareTargetTx(h) == handles[h].tx

\* d.X.PrepareNamed(query): X is the *sqlx.DB every handle carries, so the
\* statement is prepared on the base connection whatever the handle.
PrepareTarget(h) == NoTx

\* d.X.PrepareNamed(query) against the base connection: on success the new
\* statement is stored, on failure nothing is; the deferred Unlock runs.
StmtPrepare(t, ok) ==
    /\ pc[t] = "Stmt_prepare"
    /\ prepareCalls' = [prepareCalls EXCEPT ![call[t].q] = @ + 1]
    /\ stmtsMtx' = Unlock(t)
    /\ IF ok
       THEN /\ stmts' = [stmts EXCEPT ![call[t].q] = nextStmt]
            /\ prepareOk' = [prepareOk EXCEPT ![call[t].q] = @ + 1]
            /\ nextStmt' = nextStmt + 1
            /\ prepared' = [prepared EXCEPT ![nextStmt] =
                                [via |-> call[t].h,
                                 on |-> PrepareTarget(call[t].h)]]
            /\ StmtReturns(t, call[t], nextStmt, Nil)
       ELSE /\ StmtReturns(t, call[t], NoStmt, New("prepare"))
            /\ UNCHANGED <<stmts, prepareOk, nextStmt, prepared>>
    /\ UNCHANGED <<handles, txs, rows, txf, closeCalls, beginCalls, closeDone,
                   calls, named>>

(***************************************************************************)
(* Exec / Get / Select after Stmt returned (database.go 59-67, 77-89,      *)
(* 99-111).                                                                *)
(***************************************************************************)
ExecTargetConn(h) == NoTx

\* exec := s.ExecContext; if d.tx != nil { exec = d.tx.NamedStmt(s).ExecContext }:
\* the transaction the statement runs in, NoTx for the base connection.
ExecTarget(h) == IF handles[h].tx # NoTx THEN handles[h].tx ELSE NoTx

\* driver: the keys a statement running in target sees: the committed rows,
\* and in a transaction its own pending ones.
Visible(target) ==
    {r[1] : r \in rows} \cup (IF target = NoTx THEN {} ELSE txs[target].pending)

\* driver: the primary key is taken by a committed row or by a pending one.
KeyTaken(k) ==
    \/ k \in Visible(NoTx)
    \/ \E x \in TxIds : txs[x].state = "open" /\ k \in txs[x].pending

ParamsRaw(p) == p

\* if params == nil { params = struct{}{} }
Params(p) == IF p = NilParams THEN EmptyParams ELSE p

\* driver: statement c.stmt is run with params p, in the transaction or
\* straight on the connection: what the call returns and what the table and
\* the transactions are afterwards.  The driver cannot bind nil params; an
\* Exec that binds a key inserts it (failing on a taken key); a Get/Select,
\* or an Exec that binds nothing, changes nothing.
DriverRun(t, c, p) ==
    LET target == ExecTarget(c.h)
        writer == handles[c.h].tx
        err == IF p = NilParams THEN New("params")
               ELSE IF c.name = "Exec" /\ p \in Keys /\ KeyTaken(p) THEN New("exec")
               ELSE Nil
        inserts == c.name = "Exec" /\ p \in Keys /\ err = Nil
    IN [ret |-> [t |-> t, name |-> c.name, h |-> c.h, q |-> c.q, k |-> c.k,
                 stmt |-> c.stmt, target |-> target, params |-> p, err |-> err],
        rows |-> IF inserts /\ target = NoTx THEN rows \cup {<<p, writer>>}
                 ELSE rows,
        txs |-> IF ~inserts THEN txs
                ELSE IF target # NoTx
                THEN [txs EXCEPT ![target].pending = @ \cup {p},
                                 ![target].writes = @ \cup {p}]
                ELSE IF writer # NoTx
                THEN [txs EXCEPT ![writer].writes = @ \cup {p}]
                ELSE txs]

\* Exec/Get/Select after Stmt returned a statement: nil params become the
\* empty struct, and the statement runs on the handle's target.
Run(t) ==
    /\ pc[t] = "run"
    /\ LET e == DriverRun(t, call[t], Params(call[t].k))
       IN /\ Returns(t, e.ret)
          /\ rows' = e.rows
          /\ txs' = e.txs
    /\ UNCHANGED <<stmts, stmtsMtx, handles, txf, prepareCalls, prepareOk, prepared,
                   closeCalls, nextStmt, beginCalls, closeDone, calls, named>>

(***************************************************************************)
(* Transact (database.go 119-145).                                         *)
(***************************************************************************)
TransactRet(t, h, x, err) ==
    [t |-> t, name |-> "Transact", h |-> h, q |-> 0, k |-> 0, stmt |-> NoStmt,
     target |-> x, params |-> 0, err |-> err]

HasTxNever(h) == FALSE

\* if d.tx != nil: the handle already holds a transaction.
HasTx(h) == handles[h].tx # NoTx

NewHandlesInPlace(h, x) ==
    LET child == [tx |-> x, txLevel |-> handles[h].txLevel + 1]
    IN  (x :> child) @@ [handles EXCEPT ![h] = child]

\* txLvl := d.txLevel + 1; &Database{X: d.X, tx: tx, txLevel: txLvl, ...}: a
\* new handle for transaction x is built, the handle called on is left alone.
NewHandles(h, x) ==
    (x :> [tx |-> x, txLevel |-> handles[h].txLevel + 1]) @@ handles

BeginTxxShared(n) == 1

\* tx, err := d.X.BeginTxx(ctx, &opts): each call of the driver's begin gives a
\* transaction of its own, the n+1-th after n calls.
BeginTxx(n) == n + 1

BeginFailedIgnored(ok) == FALSE

\* if err != nil { return err } after BeginTxx: ok is the driver's outcome.
BeginFailed(ok) == ~ok

\* Transact up to the call of f: a handle holding a transaction is refused;
\* otherwise d.X.BeginTxx, whose error is returned as it is, and on success
\* the callback starts on the new handle.
TransactCall(t, ok) ==
    /\ AtBase(t)
    /\ calls < MaxCalls
    /\ InOrder(t, 0, 0)
    /\ calls' = calls + 1
    /\ named' = Names(t, 0, 0)
    /\ LET h == CurHandle(t)
           x == BeginTxx(beginCalls)
       IN IF HasTx(h)
          THEN /\ Returns(t, TransactRet(t, h, NoTx, New("nested")))
               /\ UNCHANGED <<handles, txs, txf, beginCalls>>
          ELSE /\ x \in TxIds
               /\ beginCalls' = x
               /\ txs' = [txs EXCEPT ![x].state = IF ok THEN "open"
                                                 ELSE "begin_failed"]
               /\ IF ~BeginFailed(ok)
                  THEN /\ handles' = NewHandles(h, x)
                       /\ txf' = [txf EXCEPT ![t] =
                                     [tx |-> x, parent |-> h,
                                      lvl |-> handles[h].txLevel + 1,
                                      cache0 |-> stmts, prep0 |-> prepareCalls]]
                       /\ pc' = [pc EXCEPT ![t] = "callback"]
                       /\ UNCHANGED <<ret, call>>
                  ELSE /\ Returns(t, TransactRet(t, h, NoTx, New("begin")))
                       /\ UNCHANGED <<handles, txf>>
    /\ UNCHANGED <<stmts, stmtsMtx, rows, prepareCalls, prepareOk, prepared, closeCalls,
                   nextStmt, closeDone>>

\* What a callback may return: nil, or an error (its own, or one of a call
\* it made: Transact only asks whether it is nil).
CallbackResults == {Nil, New("callback")}

CallbackFailedNever(ferr) == FALSE

\* if err := f(...); err != nil
CallbackFailed(ferr) == ferr # Nil

RollbackResultShadowed(rerr, ferr, lvl) ==
    IF rerr # Nil THEN Wrapf(rerr, lvl, "rollback") ELSE Wrapf(rerr, lvl, "")

\* if err := tx.Rollback(); err != nil { return Wrapf(err, "tx level %v: rollback") }
\* return Wrapf(err, "tx level %v"): the second err is the callback's.
RollbackResult(rerr, ferr, lvl) ==
    IF rerr # Nil THEN Wrapf(rerr, lvl, "rollback") ELSE Wrapf(ferr, lvl, "")

\* Transact has its result: the frame is gone and the caller has the error.
TransactReturns(t, err) ==
    /\ ret' = TransactRet(t, txf[t].parent, txf[t].tx, err)
    /\ txf' = [txf EXCEPT ![t] = NoFrame]
    /\ pc' = [pc EXCEPT ![t] = "idle"]

\* The callback returns the error e: tx.Rollback(), which drops the pending
\* rows when it succeeds.
TransactRollback(t, e, ok) ==
    /\ pc[t] = "callback"
    /\ e \in CallbackResults
    /\ CallbackFailed(e)
    /\ LET x == txf[t].tx
           rerr == IF ok THEN Nil ELSE New("rollback")
           res == RollbackResult(rerr, e, txf[t].lvl)
       IN /\ txs' = [txs EXCEPT ![x].rollbacks = @ + 1,
                                ![x].state = IF ok THEN "rolledback"
                                             ELSE "rollback_failed",
                                ![x].pending = IF ok THEN {} ELSE @,
                                ![x].ferr = e,
                                ![x].result = res,
                                ![x].returned = TRUE]
          /\ TransactReturns(t, res)
    /\ UNCHANGED <<stmts, stmtsMtx, handles, rows, call, prepareCalls, prepareOk, prepared,
                   closeCalls, nextStmt, beginCalls, closeDone, calls, named>>

\* The callback returns e, no error: tx.Commit(), which makes the pending rows
\* rows of the table when it succeeds; its error is wrapped (nil stays nil).
TransactCommit(t, e, ok) ==
    /\ pc[t] = "callback"
    /\ e \in CallbackResults
    /\ ~CallbackFailed(e)
    /\ LET x == txf[t].tx
           cerr == IF ok THEN Nil ELSE New("commit")
           res == Wrapf(cerr, txf[t].lvl, "commit")
       IN /\ txs' = [txs EXCEPT ![x].commits = @ + 1,
                                ![x].state = IF ok THEN "committed"
                                             ELSE "commit_failed",
                                ![x].pending = {},
                                ![x].ferr = e,
                                ![x].result = res,
                                ![x].returned = TRUE]
          /\ rows' = IF ok THEN rows \cup {<<k, x>> : k \in txs[x].pending}
                     ELSE rows
          /\ TransactReturns(t, res)
    /\ UNCHANGED <<stmts, stmtsMtx, handles, call, prepareCalls, prepareOk, prepared,
                   closeCalls, nextStmt, beginCalls, closeDone, calls, named>>

(***************************************************************************)
(* Close (database.go 167-177).                                            *)
(***************************************************************************)
Cached == {stmts[q] : q \in {p \in Queries : stmts[p] # NoStmt}}

\* Lock; range over the map in the order Go picks, calling Close on each
\* statement and returning at the first error; the deferred Unlock runs.
\* visited: the statements the loop reached; failed: the last of them failed.
Close(t, visited, failed) ==
    /\ AtBase(t)
    /\ calls < MaxCalls
    /\ InOrder(t, 0, 0)
    /\ Lock(t)
    /\ named' = Names(t, 0, 0)
    /\ visited \subseteq Cached
    /\ IF failed THEN visited # {} ELSE visited = Cached
    /\ calls' = calls + 1
    /\ closeCalls' = [s \in StmtIds |->
                         IF s \in visited THEN closeCalls[s] + 1 ELSE closeCalls[s]]
    /\ closeDone' = closeDone + 1
    /\ stmtsMtx' = Unlock(t)
    /\ Returns(t, [t |-> t, name |-> "Close", h |-> CurHandle(t), q |-> 0,
                   k |-> 0, stmt |-> NoStmt, target |-> NoTx, params |-> 0,
                   err |-> IF failed THEN New("close") ELSE Nil])
    /\ UNCHANGED <<stmts, handles, txs, rows, txf, prepareCalls, prepareOk, prepared,
                   nextStmt, beginCalls>>

Next ==
    \/ \E t \in Threads, q \in Queries : Call(t, "Stmt", q, EmptyParams)
    \/ \E t \in Threads, q \in Queries, k \in Keys : Call(t, "Exec", q, k)
    \/ \E t \in Threads, q \in Queries : Call(t, "Get", q, EmptyParams)
    \/ \E t \in Threads, q \in Queries : Call(t, "Select", q, EmptyParams)
    \/ \E t \in Threads, ok \in BOOLEAN : StmtPrepare(t, ok)
    \/ \E t \in Threads : Run(t)
    \/ \E t \in Threads, ok \in BOOLEAN : TransactCall(t, ok)
    \/ \E t \in Threads, e \in CallbackResults, ok \in BOOLEAN :
          TransactRollback(t, e, ok)
    \/ \E t \in Threads, e \in CallbackResults, ok \in BOOLEAN :
          TransactCommit(t, e, ok)
    \/ \E t \in Threads, failed \in BOOLEAN :
          \E visited \in SUBSET Cached : Close(t, visited, failed)

\* Every behaviour in which each Exec binds a key and each Get/Select passes
\* the empty params.
Spec == Init /\ [][Next]_vars

\* The params argument in full: one goroutine calls Exec, Get and Select with
\* absent, empty or key-binding params, on the root handle and inside Transact.
Caller == {1}

NextParams ==
    \/ \E t \in Caller, q \in Queries, k \in Keys \cup {NilParams, EmptyParams} :
          Call(t, "Exec", q, k)
    \/ \E t \in Caller, q \in Queries, k \in {NilParams, EmptyParams} :
          Call(t, "Get", q, k)
    \/ \E t \in Caller, q \in Queries, k \in {NilParams, EmptyParams} :
          Call(t, "Select", q, k)
    \/ \E t \in Caller, ok \in BOOLEAN : StmtPrepare(t, ok)
    \/ \E t \in Caller : Run(t)
    \/ \E t \in Caller, ok \in BOOLEAN : TransactCall(t, ok)
    \/ \E t \in Caller, e \in CallbackResults, ok \in BOOLEAN :
          TransactRollback(t, e, ok)
    \/ \E t \in Caller, e \in CallbackResults, ok \in BOOLEAN :
          TransactCommit(t, e, ok)

ParamsSpec == Init /\ [][NextParams]_vars

\* The calls as the mutex sees them: every call and every outcome of the steps
\* that take or release it (lookup, prepare, release), with the transaction's
\* own driver calls (begin, commit, rollback), which never touch it, succeeding.
NextLock ==
    \/ \E t \in Threads, q \in Queries : Call(t, "Stmt", q, EmptyParams)
    \/ \E t \in Threads, q \in Queries, k \in Keys : Call(t, "Exec", q, k)
    \/ \E t \in Threads, q \in Queries : Call(t, "Get", q, EmptyParams)
    \/ \E t \in Threads, q \in Queries : Call(t, "Select", q, EmptyParams)
    \/ \E t \in Threads, ok \in BOOLEAN : StmtPrepare(t, ok)
    \/ \E t \in Threads : Run(t)
    \/ \E t \in Threads : TransactCall(t, TRUE)
    \/ \E t \in Threads : TransactRollback(t, New("callback"), TRUE)
    \/ \E t \in Threads : TransactCommit(t, Nil, TRUE)
    \/ \E t \in Threads, failed \in BOOLEAN :
          \E visited \in SUBSET Cached : Close(t, visited, failed)

\* A goroutine inside PrepareNamed with the mutex held is running code: the
\* scheduler lets it go on (the driver call returns, with or without an error).
\* At most one goroutine is there at a time, so one condition covers them all.
LiveSpec ==
    /\ Init /\ [][NextLock]_vars
    /\ WF_vars(\E t \in Threads, ok \in BOOLEAN : StmtPrepare(t, ok))

(***************************************************************************)
(* Properties.                                                             *)
(***************************************************************************)
Resolves == {"Stmt", "Exec", "Get", "Select"}

\* A resolve of q has finished: it returned last, or its Exec/Get/Select is
\* about to run the statement.
ResolveDone(q) ==
    \/ ret.name \in Resolves /\ ret.q = q
    \/ \E t \in Threads : pc[t] = "run" /\ call[t].q = q

\* C1 as stated: once a query has been resolved, the driver's prepare has been
\* invoked exactly once for it, however often and from wherever it was resolved.
C1_PrepareExactlyOnce ==
    \A q \in Queries : ResolveDone(q) => prepareCalls[q] = 1

\* C1 amended: for every query, under every interleaving, the driver's prepare
\* succeeds at most once, the query is cached exactly when it has succeeded,
\* and prepare is never invoked again for a query that is in the cache (a
\* failed prepare caches nothing, so the next resolve invokes prepare again).
C1_PrepareOnceUntilCached ==
    /\ [](\A q \in Queries :
             /\ prepareOk[q] <= 1
             /\ (stmts[q] # NoStmt) <=> (prepareOk[q] = 1))
    /\ [][\A q \in Queries :
             stmts[q] # NoStmt => prepareCalls'[q] = prepareCalls[q]]_vars

\* A query whose first prepare failed, whose second succeeded, and which was
\* then resolved again from the cache.
C1_Witness ==
    /\ ret.name \in Resolves /\ ret.err = Nil /\ ret.stmt # NoStmt
    /\ stmts[ret.q] = ret.stmt
    /\ prepareCalls[ret.q] = 2 /\ prepareOk[ret.q] = 1
    /\ calls = 3

\* C2: a transaction whose callback has returned has, by the time Transact
\* returns, had exactly one of commit and rollback invoked, once: rollback and
\* no commit after a callback error, commit and no rollback after success; and
\* neither is invoked before the callback returns.
C2_ExactlyOneOfCommitRollback ==
    \A x \in TxIds :
        /\ txs[x].returned =>
              /\ txs[x].commits + txs[x].rollbacks = 1
              /\ txs[x].ferr # Nil => txs[x].rollbacks = 1 /\ txs[x].commits = 0
              /\ txs[x].ferr = Nil => txs[x].commits = 1 /\ txs[x].rollbacks = 0
        /\ ~txs[x].returned => txs[x].commits = 0 /\ txs[x].rollbacks = 0

C2_Witness ==
    \E x \in TxIds :
        txs[x].returned /\ txs[x].ferr # Nil /\ txs[x].rollbacks = 1

\* C3: after a callback error and a successful rollback Transact's error is
\* non-nil and no row the callback wrote through its handle is in the table a
\* query on the root handle reads; after a callback success and a nil result
\* every key the callback wrote is a row of that table.
C3_TransactionAtomic ==
    \A x \in TxIds :
        /\ txs[x].ferr # Nil /\ txs[x].state = "rolledback" =>
              /\ txs[x].result # Nil
              /\ \A k \in Keys : <<k, x>> \notin rows
        /\ txs[x].returned /\ txs[x].ferr = Nil /\ txs[x].result = Nil =>
              /\ \A k \in txs[x].writes : <<k, x>> \in rows
              /\ txs[x].writes \subseteq Visible(NoTx)

\* A rolled back transaction whose callback had inserted a row before it failed.
C3_Witness ==
    \E x \in TxIds :
        txs[x].state = "rolledback" /\ txs[x].writes # {} /\ rows = {}

\* C4: no transaction is ever begun from a handle that holds one (every
\* transaction-scoped handle is one level deep), and a Transact called on such
\* a handle returns the nesting error with no transaction of its own, leaving
\* its caller inside the same callback and the enclosing transaction open,
\* neither committed nor rolled back.
C4_NestedTransactRejected ==
    /\ \A h \in DOMAIN handles : h # Root => handles[h].txLevel = 1
    /\ Cardinality(DOMAIN handles) - 1 <= beginCalls
    /\ ret.name = "Transact" /\ handles[ret.h].tx # NoTx =>
          /\ ret.err = New("nested")
          /\ ret.target = NoTx
          /\ txf[ret.t].tx = handles[ret.h].tx
          /\ pc[ret.t] # "idle"
          /\ txs[handles[ret.h].tx].state = "open"
          /\ txs[handles[ret.h].tx].commits = 0
          /\ txs[handles[ret.h].tx].rollbacks = 0

C4_Witness ==
    /\ ret.name = "Transact" /\ ret.err = New("nested")
    /\ pc[ret.t] = "callback"

\* C5: after a callback error Transact's result is non-nil: the rollback's
\* error wrapped with the depth and the rollback marker when rollback failed,
\* the callback's error wrapped with the depth when rollback succeeded; and
\* that result is what the caller gets.
C5_RollbackErrorPrecedence ==
    /\ \A x \in TxIds :
          txs[x].returned /\ txs[x].ferr # Nil =>
             /\ txs[x].result # Nil
             /\ txs[x].state = "rollback_failed" =>
                   txs[x].result = [kind |-> "wrap", level |-> 1,
                                    marker |-> "rollback", cause |-> "rollback"]
             /\ txs[x].state = "rolledback" =>
                   txs[x].result = [kind |-> "wrap", level |-> 1, marker |-> "",
                                    cause |-> txs[x].ferr.kind]
             /\ txs[x].state \in {"rollback_failed", "rolledback"}
    /\ ret.name = "Transact" /\ ret.target # NoTx => ret.err = txs[ret.target].result

C5_Witness ==
    \E x \in TxIds :
        /\ txs[x].state = "rollback_failed" /\ txs[x].returned
        /\ ret.name = "Transact" /\ ret.target = x

\* C6: the root handle never holds a transaction and stays at depth 0, and no
\* handle, once built, ever changes its transaction or its depth.
C6_HandlesNeverMutated ==
    /\ [](handles[Root] = [tx |-> NoTx, txLevel |-> 0])
    /\ [][\A h \in DOMAIN handles :
             h \in DOMAIN handles' /\ handles'[h] = handles[h]]_vars

\* Transact on the root handle has built a handle, committed and returned.
C6_Witness ==
    /\ \E x \in TxIds : txs[x].state = "committed" /\ x \in DOMAIN handles
    /\ ret.name = "Transact" /\ ret.h = Root /\ ret.err = Nil

\* C7 as stated: once a Close has returned (and nothing has been prepared
\* since), every cached statement has had its release invoked exactly once.
C7_ReleasedExactlyOnce ==
    (closeDone >= 1 /\ ret.name = "Close" /\ \A t \in Threads : AtBase(t)) =>
        \A s \in Cached : closeCalls[s] = 1

\* C8: a resolve that returns a statement returns the one the map holds for
\* its query, on whichever handle it was made, and an entry of the map is
\* never removed or replaced.
C8_CacheAppendOnly ==
    /\ [](/\ ret.name \in Resolves /\ ret.stmt # NoStmt =>
                stmts[ret.q] = ret.stmt
          /\ \A t \in Threads : pc[t] = "run" =>
                call[t].stmt # NoStmt /\ stmts[call[t].q] = call[t].stmt)
    /\ [][\A q \in Queries : stmts[q] # NoStmt => stmts'[q] = stmts[q]]_vars

\* A query prepared once, then resolved by Stmt on a transaction-scoped handle.
C8_Witness ==
    /\ ret.name = "Stmt" /\ ret.h # Root /\ ret.stmt # NoStmt
    /\ stmts[ret.q] = ret.stmt
    /\ prepareCalls[ret.q] = 1
    /\ txf[ret.t].cache0[ret.q] = ret.stmt

\* C9: for a query that was in the cache when a transaction began, as long as
\* the callback runs the entry is the same and prepare has not been invoked
\* again, every Exec/Get/Select of the callback runs that statement, and
\* running a statement (re-bound to the transaction or not) leaves the map
\* as it is.
C9_PreparedBeforeTxReused ==
    /\ [](\A t \in Threads : txf[t].tx # NoTx =>
             /\ \A q \in Queries : txf[t].cache0[q] # NoStmt =>
                   /\ stmts[q] = txf[t].cache0[q]
                   /\ prepareCalls[q] = txf[t].prep0[q]
             /\ pc[t] = "run" /\ txf[t].cache0[call[t].q] # NoStmt =>
                   call[t].stmt = txf[t].cache0[call[t].q]
             /\ ( /\ ret.t = t /\ ret.h = txf[t].tx /\ ret.name \in OpNames
                  /\ txf[t].cache0[ret.q] # NoStmt ) =>
                   ret.stmt = txf[t].cache0[ret.q])
    /\ [][\A t \in Threads : pc[t] = "run" /\ pc'[t] # "run" => stmts' = stmts]_vars

\* Stmt on the root handle, then Transact, then an Exec of the same query in
\* the callback.
C9_Witness ==
    /\ ret.name = "Exec" /\ ret.h # Root /\ ret.err = Nil
    /\ ret.target = ret.h
    /\ txf[ret.t].tx = ret.h
    /\ txf[ret.t].cache0[ret.q] = ret.stmt /\ ret.stmt # NoStmt

\* The driver failure behind an error, through one wrapping.
Failure(err) == IF err.kind = "wrap" THEN err.cause ELSE err.kind

\* C10 as stated: an error Transact returns because begin, commit or rollback
\* failed is wrapped with the depth of the transaction-scoped handle, the
\* depth of the handle called on plus one.
C10_TxErrorsCarryDepth ==
    (ret.name = "Transact" /\ Failure(ret.err) \in {"begin", "commit", "rollback"}) =>
        ret.err.kind = "wrap" /\ ret.err.level = handles[ret.h].txLevel + 1

\* C11: the driver is never handed nil params, and an Exec, Get or Select
\* called with nil params, on the root handle or on a transaction-scoped one,
\* hands the driver the same statement, target and params, returns the same
\* error and leaves the same table and transactions as the driver's run of
\* that call with the empty params.
C11_NilParamsAsEmpty ==
    /\ [](ret.params # NilParams)
    /\ [][\A t \in Threads :
             (pc[t] = "run" /\ pc'[t] # "run" /\ call[t].k = NilParams) =>
                LET e == DriverRun(t, [call[t] EXCEPT !.k = EmptyParams],
                                   EmptyParams)
                IN /\ ret' = [e.ret EXCEPT !.k = NilParams]
                   /\ rows' = e.rows
                   /\ txs' = e.txs]_vars

\* An Exec with nil params has run inside a transaction.
C11_Witness ==
    /\ ret.name = "Exec" /\ ret.k = NilParams /\ ret.h # Root
    /\ ret.target = ret.h /\ ret.params = EmptyParams /\ ret.err = Nil

\* C12: the cache mutex is held only by a goroutine inside Stmt's
\* lookup-or-create (Close takes and releases it in one step), hence never by
\* one that executes a statement, runs a Transact callback, or is between
\* calls; every return of Stmt and of Close leaves it free; and a held mutex is
\* always released, so no caller waits for it forever.
C12_LockOnlyAroundCache ==
    /\ [](stmtsMtx # NoThread => pc[stmtsMtx] = "Stmt_prepare")
    /\ [][\A t \in Threads :
             (pc[t] = "Stmt_prepare" /\ pc'[t] # "Stmt_prepare") =>
                stmtsMtx' = NoThread]_vars
    /\ [][ret' # ret /\ ret'.name \in {"Stmt", "Close"} => stmtsMtx' = NoThread]_vars
    /\ (stmtsMtx # NoThread) ~> (stmtsMtx = NoThread)

\* One goroutine executes a statement inside its transaction while another
\* holds the mutex in Stmt.
C12_Witness ==
    \E t, u \in Threads :
        /\ pc[t] = "run" /\ txf[t].tx # NoTx
        /\ stmtsMtx = u /\ pc[u] = "Stmt_prepare"

\* C13: when the driver fails to prepare a query, the call that was resolving
\* it (Stmt, Exec, Get or Select) returns the prepare error with no statement,
\* the cache is exactly as it was, and nothing is executed: no step of the
\* call follows, and neither the table nor any transaction changes. A goroutine
\* that executes always holds a resolved statement.
C13_PrepareFailureLeavesCache ==
    /\ [](\A t \in Threads : pc[t] = "run" => call[t].stmt # NoStmt)
    /\ [](ret.err = New("prepare") => ret.stmt = NoStmt /\ ret.target = NoTx)
    /\ [][\A t \in Threads :
             (/\ pc[t] = "Stmt_prepare"
              /\ pc'[t] # "Stmt_prepare"
              /\ prepareOk' = prepareOk) =>
                /\ prepareCalls'[call[t].q] = prepareCalls[call[t].q] + 1
                /\ stmts' = stmts
                /\ pc'[t] = Base(t)
                /\ ret'.t = t /\ ret'.name = call[t].name /\ ret'.q = call[t].q
                /\ ret'.err = New("prepare") /\ ret'.stmt = NoStmt
                /\ rows' = rows /\ txs' = txs]_vars

\* An Exec inside a transaction has returned the prepare error of its query
\* while another query stays cached.
C13_Witness ==
    /\ ret.name = "Exec" /\ ret.h # Root /\ ret.err = New("prepare")
    /\ stmts[ret.q] = NoStmt
    /\ \E q \in Queries : stmts[q] # NoStmt
    /\ AtBase(ret.t)

\* C14: an Exec, Get or Select executes the cached statement of its query in
\* the transaction of the handle it was issued on, and on the base connection
\* when issued on the root handle. Issued on a transaction-scoped handle it
\* touches that handle's own open transaction only: the table and every other
\* transaction stay as they were. Issued on the root handle it touches the
\* table only. No call touches both.
C14_ExecutesOnOwnPath ==
    [][\A t \in Threads :
          (pc[t] = "run" /\ pc'[t] # "run") =>
             LET h == call[t].h
                 x == handles[h].tx
             IN /\ ret'.t = t /\ ret'.h = h
                /\ ret'.stmt = call[t].stmt /\ call[t].stmt = stmts[call[t].q]
                /\ ret'.target = x
                /\ h = Root =>
                      /\ x = NoTx
                      /\ txs' = txs
                      /\ rows \subseteq rows'
                /\ h # Root =>
                      /\ x = h /\ x = txf[t].tx /\ txs[x].state = "open"
                      /\ rows' = rows
                      /\ \A y \in TxIds \ {x} : txs'[y] = txs[y]
                      /\ txs[x].pending \subseteq txs'[x].pending
                      /\ ret'.name = "Exec" /\ ret'.err = Nil =>
                            ret'.params \in txs'[x].pending
                /\ rows' = rows \/ txs' = txs]_vars

\* A Get has run inside an open transaction in which an Exec had inserted a row
\* that is not in the table.
C14_Witness ==
    /\ ret.name = "Get" /\ ret.h # Root /\ ret.target = ret.h /\ ret.err = Nil
    /\ txs[ret.h].state = "open" /\ txs[ret.h].pending # {} /\ rows = {}

\* C15 as stated: a Close invokes the release of every cached statement,
\* whatever the earlier releases returned, and returns nil when none failed and
\* the release error otherwise.
C15_CloseReleasesEvery ==
    [][closeDone' = closeDone + 1 =>
          /\ ret'.name = "Close"
          /\ \A s \in Cached : closeCalls'[s] = closeCalls[s] + 1
          /\ ret'.err \in {Nil, New("close")}]_vars

\* C16: a Transact that has returned returned nil exactly when it was called on
\* a handle holding no transaction, its begin succeeded (it has a transaction
\* of its own), its callback returned nil and its commit succeeded; and a
\* transaction whose commit failed had a callback that returned nil, was never
\* rolled back, and gave Transact the commit error wrapped with depth 1.
C16_NilIffCommitted ==
    /\ ret.name = "Transact" =>
          (ret.err = Nil <=>
              /\ handles[ret.h].tx = NoTx
              /\ ret.target # NoTx
              /\ txs[ret.target].ferr = Nil
              /\ txs[ret.target].state = "committed")
    /\ \A x \in TxIds :
          /\ txs[x].returned =>
                (txs[x].result = Nil <=>
                    txs[x].ferr = Nil /\ txs[x].state = "committed")
          /\ txs[x].state \in {"committed", "commit_failed"} =>
                txs[x].commits = 1 /\ txs[x].rollbacks = 0 /\ txs[x].ferr = Nil
          /\ txs[x].state = "commit_failed" =>
                /\ txs[x].returned
                /\ txs[x].result = [kind |-> "wrap", level |-> 1,
                                    marker |-> "commit", cause |-> "commit"]

\* One Transact has committed and returned nil, and a later one has returned
\* the error of its failed commit.
C16_Witness ==
    /\ ret.name = "Transact" /\ ret.target # NoTx /\ ret.err # Nil
    /\ txs[ret.target].state = "commit_failed"
    /\ \E x \in TxIds : txs[x].state = "committed" /\ txs[x].result = Nil

\* C17: a statement whose prepare was made by a call on a transaction-scoped
\* handle is prepared on the base connection, never on that transaction; it is
\* the entry of the one shared map; and no step, the commit or rollback of that
\* transaction included, removes it, replaces it or prepares its query again:
\* every later resolve of the query, on the root handle or on the handle of a
\* later transaction, returns that same statement.
C17_TxPreparedOutlivesTx ==
    /\ [](\A q \in Queries :
             stmts[q] # NoStmt =>
                /\ prepared[stmts[q]].on = NoTx
                /\ prepareOk[q] = 1
                /\ prepared[stmts[q]].via \in DOMAIN handles)
    /\ []((ret.name \in Resolves /\ ret.stmt # NoStmt) =>
             stmts[ret.q] = ret.stmt /\ prepared[ret.stmt].on = NoTx)
    /\ [][\A q \in Queries :
             (stmts[q] # NoStmt /\ prepared[stmts[q]].via # Root) =>
                /\ stmts'[q] = stmts[q]
                /\ prepared'[stmts[q]] = prepared[stmts[q]]
                /\ prepareCalls'[q] = prepareCalls[q]]_vars

\* A call on the root handle has got, without a prepare, the statement that a
\* call inside a transaction had prepared; that transaction is over.
C17_Witness ==
    /\ ret.name \in Resolves /\ ret.h = Root /\ ret.err = Nil
    /\ ret.stmt # NoStmt /\ stmts[ret.q] = ret.stmt
    /\ prepared[ret.stmt].via # Root
    /\ txs[prepared[ret.stmt].via].state \in {"committed", "rolledback"}
    /\ prepareCalls[ret.q] = 1

\* C18: Transact calls running at the same time are independent: their
\* callbacks hold distinct open transactions, each on a handle of its own bound
\* to its own transaction; a step changes at most one transaction, and the
\* transaction of a running callback changes only by a step of the goroutine
\* running that callback, which alone commits it or rolls it back; the step of
\* one leaves the handle, the frame and the position of every other goroutine
\* as they were. (What they share, the statement map, is C8's and C17's.)
C18_ConcurrentTransactsIndependent ==
    /\ [](\A t \in Threads :
             txf[t].tx # NoTx =>
                /\ txf[t].tx \in DOMAIN handles
                /\ handles[txf[t].tx].tx = txf[t].tx
                /\ txs[txf[t].tx].state = "open"
                /\ \A u \in Threads \ {t} : txf[u].tx # txf[t].tx)
    /\ [][/\ \A x, y \in TxIds :
                x # y => txs'[x] = txs[x] \/ txs'[y] = txs[y]
          /\ \A h \in DOMAIN handles : handles'[h] = handles[h]
          /\ \A t \in Threads :
                (txf[t].tx # NoTx /\ txs'[txf[t].tx] # txs[txf[t].tx]) =>
                   /\ pc[t] \in {"run", "callback"}
                   /\ pc'[t] # pc[t]
                   /\ \A u \in Threads \ {t} :
                         pc'[u] = pc[u] /\ txf'[u] = txf[u] /\ call'[u] = call[u]
                   /\ (\/ txs'[txf[t].tx].commits # txs[txf[t].tx].commits
                       \/ txs'[txf[t].tx].rollbacks # txs[txf[t].tx].rollbacks) =>
                         txf'[t] = NoFrame /\ ret'.t = t
                                           /\ ret'.target = txf[t].tx]_vars

\* A transaction begun after another one has committed the row it inserted
\* while the callback of the earlier one is still running.
C18_Witness ==
    \E u \in Threads, x \in TxIds :
        /\ txf[u].tx # NoTx /\ txf[u].tx < x /\ pc[u] = "callback"
        /\ txs[txf[u].tx].state = "open"
        /\ txs[x].state = "committed" /\ txs[x].writes # {}
        /\ \A k \in txs[x].writes : <<k, x>> \in rows

\* C19: when the driver's begin fails, Transact returns the begin error itself
\* (not wrapped) with no transaction to its name, the callback is not started
\* (the caller stays where it was, with the frame it had), no handle is built,
\* and nothing is ever committed, rolled back or written on what begin left.
C19_BeginFailureStopsTransact ==
    /\ [](\A x \in TxIds :
             txs[x].state = "begin_failed" =>
                /\ x \notin DOMAIN handles
                /\ \A t \in Threads : txf[t].tx # x
                /\ txs[x].commits = 0 /\ txs[x].rollbacks = 0
                /\ txs[x].pending = {} /\ txs[x].writes = {}
                /\ ~txs[x].returned)
    /\ [][\A x \in TxIds :
             (txs[x].state = "none" /\ txs'[x].state = "begin_failed") =>
                /\ ret'.name = "Transact" /\ ret'.err = New("begin")
                /\ ret'.target = NoTx /\ handles[ret'.h].tx = NoTx
                /\ pc'[ret'.t] = pc[ret'.t] /\ pc[ret'.t] = "idle"
                /\ txf' = txf /\ handles' = handles /\ rows' = rows]_vars

\* A Transact has returned the begin error after an earlier one had committed.
C19_Witness ==
    /\ ret.name = "Transact" /\ ret.err = New("begin") /\ pc[ret.t] = "idle"
    /\ \E x, y \in TxIds :
          txs[x].state = "committed" /\ txs[y].state = "begin_failed"

\* C20 as stated: a Close leaves the map and the prepare counts as they were,
\* and once it has returned every statement of the map has been released; no
\* later step replaces an entry or prepares its query again, so a call that
\* resolves a query cached at the Close gets a released statement.
C20_ClosedStatementsStayCached ==
    /\ [][closeDone' = closeDone + 1 =>
             /\ stmts' = stmts
             /\ prepareCalls' = prepareCalls
             /\ \A q \in Queries :
                   stmts[q] # NoStmt => closeCalls'[stmts'[q]] >= 1]_vars
    /\ [][\A q \in Queries :
             stmts[q] # NoStmt =>
                stmts'[q] = stmts[q] /\ prepareCalls'[q] = prepareCalls[q]]_vars

====
